---- MODULE Spec2Model ----
(***************************************************************************)
(* Model of the starting-equipment choice loop (lines 145-183) and of the   *)
(* monster ability averaging (lines 218-257) of                            *)
(* pages/Build_Your_Character.py, and of the LLM calls of                  *)
(* pages/Page_4.py and pages/Monster_Build.py.  Each part has its own      *)
(* specification; the variables of the other parts rest at their initial   *)
(* values meanwhile.                                                       *)
(*                                                                         *)
(* A Python str is modelled as a sequence of one-character strings, so     *)
(* that slicing, `in`, split() and title() are computed character by       *)
(* character exactly as the interpreter computes them.                     *)
(***************************************************************************)
EXTENDS Integers, Sequences, FiniteSets, TLC

VARIABLES
    pc,                      \* "loop" | "done" | "IndexError"
    n,                       \* number of starting_equipment_options items fetched by the for loop
    item,                    \* item["desc"] of the item of the current iteration
    choices,                 \* the list of that name at the end of the iteration
    radio,                   \* the options handed to starting_equipment_tab.radio in this iteration, <<>> if none
    written,                 \* the lines written to starting_equipment_tab
    starting_equipment_list, \* the list of that name
    starting_choices         \* the list of that name

\* The LLM pages, pages/Page_4.py and pages/Monster_Build.py
VARIABLES
    api_key,                 \* st.secrets.get("GOOGLE_API_KEY", None): "None" stands for None
    model,                   \* "None" | "GenerativeModel"
    page,                    \* the page whose script ran last, "none" before any run
    p4,                      \* where the last run of Page_4 ended
    monsters_fetched,        \* Page_4 called get_monster_index() in its last run
    has_chat_history,        \* "chat_history" in st.session_state
    chat_history,            \* st.session_state.chat_history
    user_message,            \* the value of st.chat_input in the last run of Page_4, <<>> for None
    sent,                    \* the last argument of model.generate_content and the page that passed it
    mb                       \* where the last run of Monster_Build ended

\* The monster ability averaging, pages/Build_Your_Character.py lines 218-257
VARIABLES
    apc,                     \* "sampling" | "done"
    monster_count,           \* len(monster_list)
    sampled,                 \* iterations of the loop of line 235 done so far
    totals,                  \* str_total, dex_total, con_total, int_total, wis_total, cha_total
    stats_dict               \* the values of stats_dict in that order, <<>> before line 257

equipVars == <<pc, n, item, choices, radio, written, starting_equipment_list, starting_choices>>
llmVars == <<api_key, model, page, p4, monsters_fetched, has_chat_history, chat_history,
             user_message, sent, mb>>
avgVars == <<apc, monster_count, sampled, totals, stats_dict>>

vars == <<equipVars, llmVars, avgVars>>

\* no page of the LLM part has run, no key is configured
LLMAtRest ==
    /\ api_key = "None"
    /\ model = "None"
    /\ page = "none"
    /\ p4 = "not_run"
    /\ monsters_fetched = FALSE
    /\ has_chat_history = FALSE
    /\ chat_history = <<>>
    /\ user_message = <<>>
    /\ sent = [page |-> "none", conversation |-> <<>>]
    /\ mb = "not_run"

\* lines 221-228 of Build_Your_Character.py with an empty monster list
AverageAtRest ==
    /\ apc = "sampling"
    /\ monster_count = 0
    /\ sampled = 0
    /\ totals = <<0, 0, 0, 0, 0, 0>>
    /\ stats_dict = <<>>

\* the starting-equipment loop before its first iteration, nothing to iterate
EquipAtRest ==
    /\ pc = "loop"
    /\ n = 0
    /\ item = <<>>
    /\ choices = <<>>
    /\ radio = <<>>
    /\ written = <<>>
    /\ starting_equipment_list = <<>>
    /\ starting_choices = <<>>

---------------------------------------------------------------------------
(* Bounds *)

\* Largest number of entries of class_json["starting_equipment_options"].
MaxItems == 2

---------------------------------------------------------------------------
(* Literals of the source *)

\* item["desc"][4:]
MarkerLen == 4
\* choices[i][0:-15]
SuffixLen == 15

\* ", (b) "
SepCommaB == <<",", " ", "(", "b", ")", " ">>
\* ", or (c) "
SepCommaOrC == <<",", " ", "o", "r", " ", "(", "c", ")", " ">>
\* " or (c)"
DetectOrC == <<" ", "o", "r", " ", "(", "c", ")">>
\* " or (b) "
SepOrB == <<" ", "o", "r", " ", "(", "b", ")", " ">>
\* "(if proficient)"
IfProficient == <<"(", "i", "f", " ", "p", "r", "o", "f", "i", "c", "i", "e", "n", "t", ")">>
\* "- "
Dash == <<"-", " ">>

---------------------------------------------------------------------------
(* Python str operations *)

LowerLetters ==
    <<"a", "b", "c", "d", "e", "f", "g", "h", "i", "j", "k", "l", "m",
      "n", "o", "p", "q", "r", "s", "t", "u", "v", "w", "x", "y", "z">>
UpperLetters ==
    <<"A", "B", "C", "D", "E", "F", "G", "H", "I", "J", "K", "L", "M",
      "N", "O", "P", "Q", "R", "S", "T", "U", "V", "W", "X", "Y", "Z">>

IsCased(c) == \E k \in 1..26 : LowerLetters[k] = c \/ UpperLetters[k] = c
Upper(c) ==
    IF \E k \in 1..26 : LowerLetters[k] = c
    THEN UpperLetters[CHOOSE k \in 1..26 : LowerLetters[k] = c]
    ELSE c
Lower(c) ==
    IF \E k \in 1..26 : UpperLetters[k] = c
    THEN LowerLetters[CHOOSE k \in 1..26 : UpperLetters[k] = c]
    ELSE c

\* s[k:]
Drop(s, k) == SubSeq(s, k + 1, Len(s))
\* s[0:-k], k > 0
DropLast(s, k) == SubSeq(s, 1, Len(s) - k)

\* s[i-1:].startswith(p), i counted from 1
StartsAt(s, p, i) ==
    /\ i + Len(p) - 1 <= Len(s)
    /\ \A k \in 1..Len(p) : s[i + k - 1] = p[k]
\* p in s
Contains(s, p) == \E i \in 1..(Len(s) - Len(p) + 1) : StartsAt(s, p, i)
\* s.find(p) + 1: the first position of p in s, 0 if there is none
Find(s, p) ==
    LET hits == {i \in 1..(Len(s) - Len(p) + 1) : StartsAt(s, p, i)}
    IN  IF hits = {} THEN 0 ELSE CHOOSE i \in hits : \A j \in hits : i <= j

\* s.split(sep): leftmost, non-overlapping occurrences; [s] if there is none
RECURSIVE Split(_, _)
Split(s, sep) ==
    LET i == Find(s, sep)
    IN  IF i = 0
        THEN <<s>>
        ELSE <<SubSeq(s, 1, i - 1)>> \o Split(Drop(s, i + Len(sep) - 1), sep)

\* s.title(): a cased character is upper-cased when the character before it
\* is not cased, lower-cased otherwise; other characters are kept.
Title(s) ==
    [i \in 1..Len(s) |->
        IF IsCased(s[i])
        THEN IF i > 1 /\ IsCased(s[i - 1]) THEN Lower(s[i]) ELSE Upper(s[i])
        ELSE s[i]]

---------------------------------------------------------------------------
(* The parsing of one description, lines 160-179 *)

\* The detection, were it to look for the second marker ", (b) "
IsThreeWayCommaB(desc) == Contains(desc, SepCommaB)

\* line 160: " or (c)" in item["desc"]
IsThreeWay(desc) == Contains(desc, DetectOrC)

\* line 161: item["desc"][4:].split(", (b) ")
FirstSplit(desc) == Split(Drop(desc, MarkerLen), SepCommaB)

\* line 162: choices[1] does not exist
RaisesIndexError(desc) == IsThreeWay(desc) /\ Len(FirstSplit(desc)) < 2

\* The three-way branch, were the second split to use " or (c) " without the comma
ThreeWayChoicesNoComma(desc) ==
    LET first    == FirstSplit(desc)
        choices1 == Split(first[2], DetectOrC \o <<" ">>)
    IN  <<first[1]>> \o SubSeq(first, 3, Len(first)) \o choices1

\* The three-way branch, were `del choices[1]` missing
ThreeWayChoicesNoDel(desc) ==
    LET first    == FirstSplit(desc)
        choices1 == Split(first[2], SepCommaOrC)
    IN  first \o choices1

\* lines 161-165: choices after `del choices[1]` and the appends of choices1
ThreeWayChoices(desc) ==
    LET first    == FirstSplit(desc)
        choices1 == Split(first[2], SepCommaOrC)
    IN  <<first[1]>> \o SubSeq(first, 3, Len(first)) \o choices1

\* The two-way split, were the [4:] slice missing
TwoWayChoicesKeepMarker(desc) == Split(desc, SepOrB)

\* line 170
TwoWayChoices(desc) == Split(Drop(desc, MarkerLen), SepOrB)

\* lines 160-170, for a description that does not raise
Choices(desc) ==
    IF IsThreeWay(desc) THEN ThreeWayChoices(desc) ELSE TwoWayChoices(desc)

\* lines 178-179
StripProficient(c) ==
    IF Contains(c, IfProficient) THEN DropLast(c, SuffixLen) ELSE c

\* The options, were they title-cased like the single entry
RadioOptionsTitled(list) == [i \in 1..Len(list) |-> Title(StripProficient(list[i]))]

\* lines 177-179: choices after the in-place strip, the list handed to radio()
RadioOptions(list) == [i \in 1..Len(list) |-> StripProficient(list[i])]

\* lines 173-174: item['desc'].title()
SingleEntry(desc) == Title(desc)

---------------------------------------------------------------------------
(* Descriptions the API may return *)

\* "(a) "
MarkA == <<"(", "a", ")", " ">>

OptAB == <<"a", " ", "b">>
OptCD == <<"c", "D">>
\* "a b (if proficient)"
OptABSfx == OptAB \o <<" ">> \o IfProficient
\* "a b (if proficient) x": the annotation is not at the end
OptMid == OptAB \o <<" ">> \o IfProficient \o <<" ", "x">>

PlainOpts == {OptAB, OptCD}
EndOpts == PlainOpts \cup {OptABSfx}
AllOpts == EndOpts \cup {OptMid}

PatternA(x, y, z) == MarkA \o x \o SepCommaB \o y \o SepCommaOrC \o z
PatternB(x, y) == MarkA \o x \o SepOrB \o y
PatternC(x) == MarkA \o x

PatternADescs == {PatternA(x, y, z) : x \in EndOpts, y \in EndOpts, z \in EndOpts}
PatternBDescs == {PatternB(x, y) : x \in AllOpts, y \in AllOpts}
PatternCDescs == {PatternC(x) : x \in AllOpts}

\* descriptions without the leading marker
NoMarkerDescs == {<<>>, OptCD, OptAB \o SepOrB \o OptCD}

\* descriptions that mix the markers of the patterns
MixedDescs ==
    { MarkA \o OptAB \o SepCommaB \o OptCD,                          \* "(a) a b, (b) cD"
      MarkA \o OptAB \o SepCommaB \o OptCD \o SepOrB \o OptAB,        \* "(a) a b, (b) cD or (b) a b"
      MarkA \o OptAB \o SepCommaB \o OptCD \o DetectOrC \o <<" ">> \o OptAB,  \* "(a) a b, (b) cD or (c) a b"
      MarkA \o OptAB \o DetectOrC \o <<" ">> \o OptCD,               \* "(a) a b or (c) cD"
      MarkA \o OptAB \o SepOrB \o OptCD \o SepCommaOrC \o OptAB }     \* "(a) a b or (b) cD, or (c) a b"

Descs == PatternADescs \cup PatternBDescs \cup PatternCDescs
            \cup NoMarkerDescs \cup MixedDescs

\* class_json["starting_equipment"] names, lines 147-148
\* "Ax"
EquipAx == <<"A", "x">>
StartingEquipment == {<<>>, <<EquipAx>>}

---------------------------------------------------------------------------
(* The loop, lines 145-183 *)

Init ==
    /\ pc = "loop"
    /\ n = 0
    /\ item = <<>>
    /\ choices = <<>>
    /\ radio = <<>>
    /\ starting_equipment_list \in StartingEquipment
    /\ written = [i \in 1..Len(starting_equipment_list) |-> Dash \o starting_equipment_list[i]]
    /\ starting_choices = <<>>
    /\ LLMAtRest
    /\ AverageAtRest

\* lines 160-162: the three-way branch indexes choices[1] of a one-element list
IterIndexError(desc) ==
    /\ pc = "loop"
    /\ n < MaxItems
    /\ RaisesIndexError(desc)
    /\ pc' = "IndexError"
    /\ n' = n + 1
    /\ item' = desc
    /\ choices' = FirstSplit(desc)
    /\ radio' = <<>>
    /\ UNCHANGED <<written, starting_equipment_list, starting_choices>>
    /\ UNCHANGED <<llmVars, avgVars>>

\* The single-option branch, were its `continue` missing: the radio of lines
\* 177-183 follows with the one option
IterSingleNoContinue(desc) ==
    /\ pc = "loop"
    /\ n < MaxItems
    /\ ~RaisesIndexError(desc)
    /\ Len(Choices(desc)) = 1
    /\ n' = n + 1
    /\ item' = desc
    /\ choices' = RadioOptions(Choices(desc))
    /\ radio' = choices'
    /\ written' = Append(written, Dash \o SingleEntry(desc))
    /\ starting_equipment_list' = Append(starting_equipment_list, SingleEntry(desc))
    /\ starting_choices' = Append(starting_choices, radio'[1])
    /\ UNCHANGED pc
    /\ UNCHANGED <<llmVars, avgVars>>

\* lines 172-175: one option, written and registered, `continue`
IterSingle(desc) ==
    /\ pc = "loop"
    /\ n < MaxItems
    /\ ~RaisesIndexError(desc)
    /\ Len(Choices(desc)) = 1
    /\ n' = n + 1
    /\ item' = desc
    /\ choices' = Choices(desc)
    /\ radio' = <<>>
    /\ written' = Append(written, Dash \o SingleEntry(desc))
    /\ starting_equipment_list' = Append(starting_equipment_list, SingleEntry(desc))
    /\ UNCHANGED <<pc, starting_choices>>
    /\ UNCHANGED <<llmVars, avgVars>>

\* lines 177-183: the options are stripped, shown in a radio, the selected one is appended.
\* radio() returns one of the options it is given (the first unless the user picks another).
IterRadio(desc) ==
    /\ pc = "loop"
    /\ n < MaxItems
    /\ ~RaisesIndexError(desc)
    /\ Len(Choices(desc)) # 1
    /\ n' = n + 1
    /\ item' = desc
    /\ choices' = RadioOptions(Choices(desc))
    /\ radio' = choices'
    /\ \E k \in 1..Len(radio') :
          starting_choices' = Append(starting_choices, radio'[k])
    /\ UNCHANGED <<pc, written, starting_equipment_list>>
    /\ UNCHANGED <<llmVars, avgVars>>

\* line 158: the list is exhausted
LoopExit ==
    /\ pc = "loop"
    /\ pc' = "done"
    /\ UNCHANGED <<n, item, choices, radio, written, starting_equipment_list, starting_choices>>
    /\ UNCHANGED <<llmVars, avgVars>>

Next ==
    \/ \E desc \in Descs : IterIndexError(desc)
    \/ \E desc \in Descs : IterSingle(desc)
    \/ \E desc \in Descs : IterRadio(desc)
    \/ LoopExit

Spec == Init /\ [][Next]_vars

---------------------------------------------------------------------------
(* Properties of the equipment-choice parsing *)

\* x contains none of the separators " or (b) ", ", (b) ", " or (c)"
SeparatorFree(x) ==
    /\ ~Contains(x, SepOrB)
    /\ ~Contains(x, SepCommaB)
    /\ ~Contains(x, DetectOrC)
\* x contains no "(if proficient)" text
NoSuffixText(x) == ~Contains(x, IfProficient)
\* x ends with the literal "(if proficient)"
EndsWithSuffix(x) ==
    Len(x) >= Len(IfProficient) /\ StartsAt(x, IfProficient, Len(x) - Len(IfProficient) + 1)
\* "T (if proficient)"
WithSuffix(t) == t \o <<" ">> \o IfProficient
\* the last element of a non-empty list
Last(list) == list[Len(list)]
\* the description is empty or does not begin with "(a) "
Malformed(desc) == Len(desc) = 0 \/ ~StartsAt(desc, MarkA, 1)
\* the item of this iteration has gone through lines 160-183 without raising
Parsed == n >= 1 /\ pc # "IndexError"

\* C1: a description "(a) X or (b) Y", X and Y free of separators and of
\* "(if proficient)", is parsed to exactly the options [X, Y], which are the
\* options offered.  X and Y range over the option texts of AllOpts.
C1_TwoWayOptions ==
    \A x \in AllOpts, y \in AllOpts :
        ( /\ n >= 1
          /\ item = PatternB(x, y)
          /\ SeparatorFree(x) /\ SeparatorFree(y)
          /\ NoSuffixText(x) /\ NoSuffixText(y) )
        => pc # "IndexError" /\ choices = <<x, y>> /\ radio = <<x, y>>

C1_Witness ==
    /\ n >= 1
    /\ item = PatternB(OptAB, OptCD)
    /\ radio # <<>>
    /\ Last(starting_choices) = OptCD

\* C2: a description "(a) X, (b) Y, or (c) Z", X, Y and Z free of separators,
\* markers and "(if proficient)", is parsed to exactly the options [X, Y, Z].
C2_ThreeWayOptions ==
    \A x \in AllOpts, y \in AllOpts, z \in AllOpts :
        ( /\ n >= 1
          /\ item = PatternA(x, y, z)
          /\ SeparatorFree(x) /\ SeparatorFree(y) /\ SeparatorFree(z)
          /\ NoSuffixText(x) /\ NoSuffixText(y) /\ NoSuffixText(z) )
        => pc # "IndexError" /\ choices = <<x, y, z>> /\ radio = <<x, y, z>>

C2_Witness ==
    /\ n >= 1
    /\ item = PatternA(OptAB, OptCD, OptAB)
    /\ radio # <<>>
    /\ Last(starting_choices) = OptCD

\* C3: a description "(a) T (if proficient) or (b) U", U without the suffix,
\* is parsed to [T, U]: the first option equals T exactly.
C3_SuffixStrippedToT ==
    \A t \in PlainOpts, u \in PlainOpts :
        (n >= 1 /\ item = PatternB(WithSuffix(t), u))
        => choices = <<t, u>>

\* C4: a description that is empty or does not begin with the marker ends in
\* an InvalidDescriptionFormat failure; nothing is parsed or registered for it.
C4_MalformedRejected ==
    (n >= 1 /\ Malformed(item)) => pc = "InvalidDescriptionFormat"

\* C5: a Pattern A description yields exactly 3 options, a Pattern B
\* description exactly 2 and a Pattern C description exactly 1, also when
\* options carry the "(if proficient)" suffix.
C5_OptionCount ==
    n >= 1 =>
        /\ \A x \in AllOpts, y \in AllOpts, z \in AllOpts :
              item = PatternA(x, y, z)
              => pc # "IndexError" /\ Len(choices) = 3 /\ Len(radio) = 3
        /\ \A x \in AllOpts, y \in AllOpts :
              item = PatternB(x, y)
              => pc # "IndexError" /\ Len(choices) = 2 /\ Len(radio) = 2
        /\ \A x \in AllOpts :
              item = PatternC(x)
              => pc # "IndexError" /\ Len(choices) = 1 /\ radio = <<>>

C5_Witness ==
    /\ n >= 1
    /\ item = PatternA(OptABSfx, OptCD, OptABSfx)
    /\ Len(choices) = 3
    /\ pc = "done"

\* s.lower()
LowerStr(s) == [i \in 1..Len(s) |-> Lower(s[i])]
\* the string still carries a leading "(a) ", "(b) " or "(c) " marker or a
\* trailing "(if proficient)" marker, in whatever letter case
RetainsMarker(o) ==
    \/ \E m \in {"a", "b", "c"} : StartsAt(LowerStr(o), <<"(", m, ")", " ">>, 1)
    \/ EndsWithSuffix(LowerStr(o))
\* descriptions that begin with "(a) " and follow Pattern A, B or C, their
\* options plain or ending with "(if proficient)"
SuffixedPatternDescs ==
    PatternADescs
        \cup {PatternB(x, y) : x \in EndOpts, y \in EndOpts}
        \cup {PatternC(x) : x \in EndOpts}

\* C6: for a description of Pattern A, B or C, no option offered for
\* selection and no entry registered for a single option retains the leading
\* marker or the trailing "(if proficient)" marker.
C6_NoMarkerRetained ==
    (Parsed /\ item \in SuffixedPatternDescs)
    => IF radio # <<>>
       THEN \A i \in 1..Len(radio) : ~RetainsMarker(radio[i])
       ELSE ~RetainsMarker(Last(starting_equipment_list))

\* C7: the last 15 characters of an option are removed only if the option
\* ends with "(if proficient)"; any other option is offered unchanged.
C7_StripOnlyAtEnd ==
    (Parsed /\ radio # <<>>)
    => \A i \in 1..Len(radio) :
          ~EndsWithSuffix(Choices(item)[i]) => radio[i] = Choices(item)[i]

\* C8: an iteration whose description yields one option appends exactly one
\* entry to starting_equipment_list, presents no radio and leaves
\* starting_choices alone; an iteration whose description yields two or more
\* options appends exactly one of the offered options to starting_choices and
\* leaves starting_equipment_list alone.
C8_Step ==
    (n' = n + 1 /\ pc' # "IndexError") =>
        IF Len(choices') = 1
        THEN /\ Len(starting_equipment_list') = Len(starting_equipment_list) + 1
             /\ SubSeq(starting_equipment_list', 1, Len(starting_equipment_list))
                    = starting_equipment_list
             /\ radio' = <<>>
             /\ starting_choices' = starting_choices
        ELSE /\ Len(radio') >= 2
             /\ \E k \in 1..Len(radio') :
                    starting_choices' = Append(starting_choices, radio'[k])
             /\ starting_equipment_list' = starting_equipment_list
C8_GrantOrChoose == [][C8_Step]_vars

C8_Witness ==
    /\ n = 2
    /\ Len(starting_choices) = 1
    /\ Len(starting_equipment_list) = 2
    /\ radio = <<>>
    /\ item = PatternC(OptCD)

\* C9: a description with ", (b) " and without " or (c)" is not split three
\* ways: the marker-stripped text is split on " or (b) ", and when that
\* separator is absent too the description is one auto-registered entry with
\* no choice offered.
C9_FallThrough ==
    (n >= 1 /\ Contains(item, SepCommaB) /\ ~Contains(item, DetectOrC))
    => LET two == Split(Drop(item, MarkerLen), SepOrB)
       IN  /\ pc # "IndexError"
           /\ IF Len(two) = 1
              THEN /\ choices = <<Drop(item, MarkerLen)>>
                   /\ radio = <<>>
                   /\ Last(starting_equipment_list) = Title(item)
              ELSE /\ radio = [i \in 1..Len(two) |-> StripProficient(two[i])]
                   /\ Last(starting_choices) \in {radio[i] : i \in 1..Len(radio)}

C9_Witness ==
    /\ n >= 1
    /\ item = MarkA \o OptAB \o SepCommaB \o OptCD
    /\ radio = <<>>
    /\ Len(choices) = 1

\* C10: every option offered for a description with two or more options is a
\* piece of the source text in its exact letter case; only the single-option
\* path writes and registers the title-cased description.
C10_TitleOnlySingle ==
    Parsed =>
        IF radio # <<>>
        THEN /\ \A i \in 1..Len(radio) : Contains(item, radio[i])
             /\ Contains(item, Last(starting_choices))
        ELSE /\ Last(starting_equipment_list) = Title(item)
             /\ Last(written) = Dash \o Title(item)

C10_Witness ==
    /\ Parsed
    /\ item = PatternB(OptCD, OptABSfx)
    /\ Last(starting_choices) = OptCD
    /\ Title(OptCD) # OptCD

\* C11: whenever " or (c)" is detected in the description, the parsing
\* completes without raising and yields exactly three options, whether or
\* not ", (b) " is present and whether or not a comma precedes " or (c) ".
C11_ThreeWayAlwaysThree ==
    (n >= 1 /\ Contains(item, DetectOrC))
    => pc # "IndexError" /\ Len(choices) = 3

---------------------------------------------------------------------------
(* The LLM pages: pages/Page_4.py and pages/Monster_Build.py *)

\* Largest number of user messages in one chat session.
MaxTurns == 3

\* values of st.secrets.get("GOOGLE_API_KEY", None): None, "" and a key
ApiKeys == {"None", "", "AIza"}
\* `if api_key:` / `if not api_key:`
Truthy(key) == key # "None" /\ key # ""
\* lines 8-12 of both pages
ConfiguredModel(key) == IF Truthy(key) THEN "GenerativeModel" ELSE "None"

\* what the user types into st.chat_input: "hi", "ac?"
Messages == {<<"h", "i">>, <<"a", "c", "?">>}
\* response.text of a successful call: " ok\n", "no"
ResponseTexts == {<<" ", "o", "k", "\n">>, <<"n", "o">>}

IsSpace(c) == c \in {" ", "\n", "\t"}
\* s.strip()
RECURSIVE Strip(_)
Strip(s) ==
    IF s = <<>> THEN s
    ELSE IF IsSpace(s[1]) THEN Strip(Drop(s, 1))
    ELSE IF IsSpace(s[Len(s)]) THEN Strip(DropLast(s, 1))
    ELSE s

UserEntry(m) == [role |-> "user", content |-> m]
AssistantEntry(r) == [role |-> "assistant", content |-> r]

\* Page_4 line 212
Speaker(role) == IF role = "user" THEN "User" ELSE "Assistant"
\* Page_4 lines 210-213: conversation_text, one <<speaker, content>> per line
ConversationText(history) ==
    [i \in 1..Len(history) |-> <<Speaker(history[i].role), history[i].content>>]
\* Page_4 lines 215-220: full_prompt, as its conversation part; the system
\* prompt and the closing request are the same in every prompt
FullPrompt(history) == [page |-> "Page_4", conversation |-> ConversationText(history)]
\* Monster_Build lines 213-218: build_prompt(...) carries no conversation
BattlePrompt == [page |-> "Monster_Build", conversation |-> <<>>]

\* number of user entries of a history
RECURSIVE UserTurns(_)
UserTurns(history) ==
    IF history = <<>> THEN 0
    ELSE (IF history[1].role = "user" THEN 1 ELSE 0) + UserTurns(Drop(history, 1))

\* Page_4 lines 120-129: where the guards stop the script, "pass" if they do not
Page4Gate ==
    IF ~Truthy(api_key) THEN "no_key"
    ELSE IF model = "None" THEN "no_model"
    ELSE "pass"

\* The Monster_Build button, were it never disabled
ButtonDisabledNever == FALSE

\* Monster_Build line 154: disabled=(model is None)
ButtonDisabled == model = "None"

LLMInit ==
    /\ api_key \in ApiKeys
    /\ model = ConfiguredModel(api_key)
    /\ page = "none"
    /\ p4 = "not_run"
    /\ monsters_fetched = FALSE
    /\ has_chat_history = FALSE
    /\ chat_history = <<>>
    /\ user_message = <<>>
    /\ sent = [page |-> "none", conversation |-> <<>>]
    /\ mb = "not_run"
    /\ EquipAtRest
    /\ AverageAtRest

\* Page_4 lines 120-129: st.error and st.stop() before anything else
Page4Stopped ==
    /\ Page4Gate # "pass"
    /\ page' = "Page_4"
    /\ p4' = Page4Gate
    /\ monsters_fetched' = FALSE
    /\ user_message' = <<>>
    /\ UNCHANGED <<api_key, model, has_chat_history, chat_history, sent, mb>>
    /\ UNCHANGED <<equipVars, avgVars>>

\* Page_4 lines 133-164: the monster index cannot be fetched, nothing is
\* selected or no details could be loaded; st.stop()
Page4NoData(why) ==
    /\ Page4Gate = "pass"
    /\ page' = "Page_4"
    /\ p4' = why
    /\ monsters_fetched' = TRUE
    /\ user_message' = <<>>
    /\ UNCHANGED <<api_key, model, has_chat_history, chat_history, sent, mb>>
    /\ UNCHANGED <<equipVars, avgVars>>

\* Page_4 lines 194-205: the chat is shown, st.chat_input returns None
Page4Idle ==
    /\ Page4Gate = "pass"
    /\ page' = "Page_4"
    /\ p4' = "idle"
    /\ monsters_fetched' = TRUE
    /\ has_chat_history' = TRUE
    /\ user_message' = <<>>
    /\ UNCHANGED <<api_key, model, chat_history, sent, mb>>
    /\ UNCHANGED <<equipVars, avgVars>>

\* Page_4 lines 205-231: a message is submitted and the call succeeds
Page4Ask(m, text) ==
    /\ Page4Gate = "pass"
    /\ UserTurns(chat_history) < MaxTurns
    /\ page' = "Page_4"
    /\ p4' = "answered"
    /\ monsters_fetched' = TRUE
    /\ has_chat_history' = TRUE
    /\ user_message' = m
    /\ sent' = FullPrompt(Append(chat_history, UserEntry(m)))
    /\ chat_history' = Append(Append(chat_history, UserEntry(m)), AssistantEntry(Strip(text)))
    /\ UNCHANGED <<api_key, model, mb>>
    /\ UNCHANGED <<equipVars, avgVars>>

\* The failing call, were the user message appended only after the call
Page4AskFailsUserLost(m) ==
    /\ Page4Gate = "pass"
    /\ UserTurns(chat_history) < MaxTurns
    /\ page' = "Page_4"
    /\ p4' = "llm_failed"
    /\ monsters_fetched' = TRUE
    /\ has_chat_history' = TRUE
    /\ user_message' = m
    /\ sent' = FullPrompt(Append(chat_history, UserEntry(m)))
    /\ UNCHANGED <<api_key, model, chat_history, mb>>
    /\ UNCHANGED <<equipVars, avgVars>>

\* Page_4 lines 205-238: a message is submitted and generate_content (or
\* response.text) raises; the except branch appends nothing
Page4AskFails(m) ==
    /\ Page4Gate = "pass"
    /\ UserTurns(chat_history) < MaxTurns
    /\ page' = "Page_4"
    /\ p4' = "llm_failed"
    /\ monsters_fetched' = TRUE
    /\ has_chat_history' = TRUE
    /\ user_message' = m
    /\ sent' = FullPrompt(Append(chat_history, UserEntry(m)))
    /\ chat_history' = Append(chat_history, UserEntry(m))
    /\ UNCHANGED <<api_key, model, mb>>
    /\ UNCHANGED <<equipVars, avgVars>>

\* Monster_Build lines 118-154: the button is not clicked (a disabled button
\* cannot be), st.button returns False
MonsterBuildWaiting ==
    /\ page' = "Monster_Build"
    /\ mb' = "waiting"
    /\ UNCHANGED <<api_key, model, p4, monsters_fetched, has_chat_history,
                   chat_history, user_message, sent>>
    /\ UNCHANGED <<equipVars, avgVars>>

\* Monster_Build lines 154-226: the button is clicked; the details are
\* fetched and shown, then the model is checked and called.  `called` says
\* whether generate_content returns ("briefing") or raises ("llm_error").
MonsterBuildAnalyze(called) ==
    /\ ~ButtonDisabled
    /\ page' = "Monster_Build"
    /\ IF model = "None"
       THEN mb' = "not_configured" /\ sent' = sent
       ELSE mb' = called /\ sent' = BattlePrompt
    /\ UNCHANGED <<api_key, model, p4, monsters_fetched, has_chat_history,
                   chat_history, user_message>>
    /\ UNCHANGED <<equipVars, avgVars>>

LLMNext ==
    \/ Page4Stopped
    \/ \E why \in {"api_error", "no_selection", "no_stats"} : Page4NoData(why)
    \/ Page4Idle
    \/ \E m \in Messages, text \in ResponseTexts : Page4Ask(m, text)
    \/ \E m \in Messages : Page4AskFails(m)
    \/ MonsterBuildWaiting
    \/ \E called \in {"briefing", "llm_error"} : MonsterBuildAnalyze(called)

SpecLLM == LLMInit /\ [][LLMNext]_vars

---------------------------------------------------------------------------
(* Properties of the LLM pages *)

\* every assistant entry directly follows a user entry
WellPaired(history) ==
    \A i \in 1..Len(history) :
        history[i].role = "assistant" => i > 1 /\ history[i - 1].role = "user"

\* C12: a run of Page_4 in which a message is submitted appends it to
\* chat_history as a user entry, after everything already there; the prompt
\* sent is the transcript of that whole history, the new message its last
\* line; a successful call appends one assistant entry right after the user
\* entry it answers, a failed call appends nothing more; no other step touches
\* chat_history, and every assistant entry directly follows a user entry.
C12_Step ==
    /\ IF page' = "Page_4" /\ user_message' # <<>>
       THEN LET asked == Append(chat_history, UserEntry(user_message'))
            IN  /\ sent'.page = "Page_4"
                /\ Len(sent'.conversation) = Len(asked)
                /\ \A i \in 1..Len(asked) :
                      sent'.conversation[i] =
                          <<(IF asked[i].role = "user" THEN "User" ELSE "Assistant"),
                            asked[i].content>>
                /\ Last(sent'.conversation) = <<"User", user_message'>>
                /\ IF p4' = "llm_failed"
                   THEN chat_history' = asked
                   ELSE /\ Len(chat_history') = Len(asked) + 1
                        /\ SubSeq(chat_history', 1, Len(asked)) = asked
                        /\ Last(chat_history').role = "assistant"
       ELSE chat_history' = chat_history
    /\ WellPaired(chat_history')
C12_Transcript == [][C12_Step]_vars

\* a failed call followed by an answered one
C12_Witness ==
    /\ Len(chat_history) = 3
    /\ chat_history[1].role = "user"
    /\ chat_history[2].role = "user"
    /\ chat_history[3].role = "assistant"
    /\ chat_history[1].content # chat_history[2].content
    /\ p4 = "answered"

\* C13: without a configured API key generate_content is never called, the
\* Monster_Build button body and its "not configured" branch are never run,
\* and Page_4 stops before fetching monsters and before creating chat_history.
C13_NoKeyNoLLM ==
    ~Truthy(api_key) =>
        /\ sent.page = "none"
        /\ mb \in {"not_run", "waiting"}
        /\ p4 \in {"not_run", "no_key"}
        /\ ~monsters_fetched
        /\ ~has_chat_history
        /\ chat_history = <<>>

C13_Witness ==
    /\ api_key = ""
    /\ p4 = "no_key"
    /\ mb = "waiting"

---------------------------------------------------------------------------
(* The monster ability averaging, pages/Build_Your_Character.py lines 218-257 *)

\* Largest number of entries of monster_dict["results"].
MaxMonsters == 201

\* monster_list[0:201:10]
SliceStop == 201
SliceStep == 10
\* int(str_total/20)
Divisor == 20

\* the ability scores a monster's JSON may carry, in the order strength,
\* dexterity, constitution, intelligence, wisdom, charisma
MonsterScores == {<<8, 14, 10, 10, 8, 8>>, <<27, 10, 25, 16, 13, 21>>}

\* line 235: the indices of monster_list[0:201:10] in a list of `count` entries
SampleIndices(count) ==
    {i \in 0..(count - 1) : i < SliceStop /\ i % SliceStep = 0}

\* lines 250-255: int(total/20), the totals are not negative
Average(total) == total \div Divisor

AverageInit ==
    /\ apc = "sampling"
    /\ monster_count \in 0..MaxMonsters
    /\ sampled = 0
    /\ totals = <<0, 0, 0, 0, 0, 0>>
    /\ stats_dict = <<>>
    /\ EquipAtRest
    /\ LLMAtRest

\* lines 235-246: one sampled monster is fetched and added to the totals
AddMonster(scores) ==
    /\ apc = "sampling"
    /\ sampled < Cardinality(SampleIndices(monster_count))
    /\ sampled' = sampled + 1
    /\ totals' = [a \in 1..6 |-> totals[a] + scores[a]]
    /\ UNCHANGED <<apc, monster_count, stats_dict>>
    /\ UNCHANGED <<equipVars, llmVars>>

\* lines 250-257: the loop is over, the averages are computed
ComputeAverages ==
    /\ apc = "sampling"
    /\ sampled = Cardinality(SampleIndices(monster_count))
    /\ apc' = "done"
    /\ stats_dict' = [a \in 1..6 |-> Average(totals[a])]
    /\ UNCHANGED <<monster_count, sampled, totals>>
    /\ UNCHANGED <<equipVars, llmVars>>

AverageNext ==
    \/ \E scores \in MonsterScores : AddMonster(scores)
    \/ ComputeAverages

SpecAverage == AverageInit /\ [][AverageNext]_vars

\* C14: each value of the chart is the sum of the ability over the sampled
\* monsters divided by the number of monsters sampled, truncated to an integer.
C14_AverageOverSampled ==
    (apc = "done" /\ sampled >= 1)
    => \A a \in 1..6 : stats_dict[a] = totals[a] \div sampled

====
